---- MODULE Spec2Model ----
(***************************************************************************)
(* Model of amplifier_module_hooks_status_context: the status-context hook *)
(* (StatusContextHook) with its git collaborator (_run_git), the pattern   *)
(* matcher (_matches_tier), the line classifier (_classify_status_line)    *)
(* and the tiered report builder (_gather_git_status).                     *)
(*                                                                         *)
(* Python strings are modelled as sequences of one-character strings, so   *)
(* that slicing, strip(), startswith(), fnmatch and "\n".join are computed *)
(* the way the code computes them.                                         *)
(***************************************************************************)
EXTENDS Integers, Sequences, FiniteSets, TLC

----------------------------------------------------------------------------
(* Python built-ins used by the module                                     *)

Min(a, b) == IF a <= b THEN a ELSE b

\* s[:n] for n >= 0
Take(s, n) == SubSeq(s, 1, Min(n, Len(s)))

\* s[n:] for n >= 0
Drop(s, n) == SubSeq(s, n + 1, Len(s))

\* characters str.strip() removes
Whitespace == {" ", "\t", "\n", "\r"}

RECURSIVE LStrip(_)
LStrip(s) ==
  IF s # <<>> /\ Head(s) \in Whitespace THEN LStrip(Tail(s)) ELSE s

RECURSIVE RStrip(_)
RStrip(s) ==
  IF s # <<>> /\ s[Len(s)] \in Whitespace THEN RStrip(SubSeq(s, 1, Len(s) - 1)) ELSE s

\* str.strip()
Strip(s) == RStrip(LStrip(s))

\* str.startswith(prefix)
StartsWith(s, prefix) ==
  /\ Len(prefix) <= Len(s)
  /\ SubSeq(s, 1, Len(prefix)) = prefix

\* str.endswith(suffix)
EndsWith(s, suffix) ==
  /\ Len(suffix) <= Len(s)
  /\ SubSeq(s, Len(s) - Len(suffix) + 1, Len(s)) = suffix

\* index of the first line break in s, 0 when there is none
RECURSIVE FirstBreak(_, _)
FirstBreak(s, i) ==
  IF i > Len(s) THEN 0
  ELSE IF s[i] = "\n" THEN i
  ELSE FirstBreak(s, i + 1)

\* str.splitlines(): no empty last element after a final line break
RECURSIVE SplitLines(_)
SplitLines(s) ==
  IF s = <<>> THEN <<>>
  ELSE LET i == FirstBreak(s, 1)
       IN  IF i = 0 THEN <<s>>
           ELSE <<SubSeq(s, 1, i - 1)>> \o SplitLines(Drop(s, i))

\* "\n".join(lines)
RECURSIVE JoinLines(_)
JoinLines(lines) ==
  IF lines = <<>> THEN <<>>
  ELSE IF Len(lines) = 1 THEN lines[1]
  ELSE lines[1] \o <<"\n">> \o JoinLines(Tail(lines))

Digits == <<"0", "1", "2", "3", "4", "5", "6", "7", "8", "9">>

\* str(n) of an integer, as the f-strings format it
RECURSIVE DecStr(_)
DecStr(n) ==
  IF n < 0 THEN <<"-">> \o DecStr(-n)
  ELSE IF n < 10 THEN <<Digits[n + 1]>>
  ELSE DecStr(n \div 10) \o <<Digits[(n % 10) + 1]>>

\* fnmatch.fnmatch(name, pat) on POSIX (normcase is the identity): "*" matches
\* any run of characters, "?" any one character, anything else itself; the
\* whole name must match.  Character classes do not occur in the patterns used.
RECURSIVE FnMatchFrom(_, _, _, _)
FnMatchFrom(name, i, pat, j) ==
  IF j > Len(pat) THEN i > Len(name)
  ELSE IF pat[j] = "*"
    THEN \/ FnMatchFrom(name, i, pat, j + 1)
         \/ (i <= Len(name) /\ FnMatchFrom(name, i + 1, pat, j))
  ELSE IF pat[j] = "?"
    THEN i <= Len(name) /\ FnMatchFrom(name, i + 1, pat, j + 1)
  ELSE i <= Len(name) /\ name[i] = pat[j] /\ FnMatchFrom(name, i + 1, pat, j + 1)

FnMatch(name, pat) == FnMatchFrom(name, 1, pat, 1)

\* Optional[str]: None, or a string
None == [isNone |-> TRUE, val |-> <<>>]
Some(s) == [isNone |-> FALSE, val |-> s]

\* Python truthiness of an Optional[str]: None and "" are falsy
Truthy(o) == ~o.isNone /\ o.val # <<>>

----------------------------------------------------------------------------
(* Module constants                                                        *)

DEFAULT_TIER1_PATTERNS ==
  <<
     <<"n", "o", "d", "e", "_", "m", "o", "d", "u", "l", "e", "s", "/", "*", "*">>,
     <<".", "n", "p", "m", "/", "*", "*">>,
     <<".", "y", "a", "r", "n", "/", "*", "*">>,
     <<".", "p", "n", "p", "m", "-", "s", "t", "o", "r", "e", "/", "*", "*">>,
     <<".", "v", "e", "n", "v", "/", "*", "*">>,
     <<"v", "e", "n", "v", "/", "*", "*">>,
     <<"e", "n", "v", "/", "*", "*">>,
     <<"E", "N", "V", "/", "*", "*">>,
     <<"_", "_", "p", "y", "c", "a", "c", "h", "e", "_", "_", "/", "*", "*">>,
     <<"*", ".", "p", "y", "c">>,
     <<"*", ".", "p", "y", "o">>,
     <<".", "p", "y", "t", "e", "s", "t", "_", "c", "a", "c", "h", "e", "/", "*", "*">>,
     <<".", "m", "y", "p", "y", "_", "c", "a", "c", "h", "e", "/", "*", "*">>,
     <<".", "r", "u", "f", "f", "_", "c", "a", "c", "h", "e", "/", "*", "*">>,
     <<"b", "u", "i", "l", "d", "/", "*", "*">>,
     <<"d", "i", "s", "t", "/", "*", "*">>,
     <<"o", "u", "t", "/", "*", "*">>,
     <<"t", "a", "r", "g", "e", "t", "/", "*", "*">>,
     <<"b", "i", "n", "/", "*", "*">>,
     <<"o", "b", "j", "/", "*", "*">>,
     <<".", "g", "i", "t", "/", "*", "*">>
  >>

DEFAULT_TIER2_PATTERNS ==
  <<
     <<"*", ".", "l", "o", "c", "k">>,
     <<"*", ".", "s", "u", "m">>,
     <<"y", "a", "r", "n", ".", "l", "o", "c", "k">>,
     <<"p", "a", "c", "k", "a", "g", "e", "-", "l", "o", "c", "k", ".", "j", "s", "o", "n">>,
     <<"G", "e", "m", "f", "i", "l", "e", ".", "l", "o", "c", "k">>,
     <<".", "i", "d", "e", "a", "/", "*", "*">>,
     <<".", "v", "s", "c", "o", "d", "e", "/", "*", "*">>,
     <<"*", ".", "s", "w", "p">>,
     <<"*", ".", "s", "w", "o">>,
     <<"*", ".", "l", "o", "g">>,
     <<"l", "o", "g", "s", "/", "*", "*">>,
     <<"c", "o", "v", "e", "r", "a", "g", "e", "/", "*", "*">>,
     <<".", "c", "o", "v", "e", "r", "a", "g", "e">>,
     <<"*", ".", "m", "i", "n", ".", "j", "s">>,
     <<"*", ".", "m", "i", "n", ".", "c", "s", "s">>,
     <<"*", ".", "m", "a", "p">>
  >>

DirSuffix == <<"/", "*", "*">>

----------------------------------------------------------------------------
(* _matches_tier and _classify_status_line                                 *)

\* variant: a directory pattern matches at a path-segment boundary only
MatchesPatternAtSegment(filepath, pattern) ==
  IF EndsWith(pattern, DirSuffix)
  THEN StartsWith(filepath, SubSeq(pattern, 1, Len(pattern) - 2))
  ELSE FnMatch(filepath, pattern)

\* one iteration of the loop of _matches_tier: does this pattern match
MatchesPattern(filepath, pattern) ==
  IF EndsWith(pattern, DirSuffix)
  THEN StartsWith(filepath, SubSeq(pattern, 1, Len(pattern) - 3))
  ELSE FnMatch(filepath, pattern)

matches_tier(filepath, patterns) ==
  \E i \in 1..Len(patterns) : MatchesPattern(filepath, patterns[i])

Untracked == <<"?", "?">>

\* variant: the tier 2 patterns are tried first
classify_status_line_tier2_first(c, line) ==
  LET status_code == Strip(Take(line, 2))
      filepath == IF Len(line) > 3 THEN Strip(Drop(line, 3)) ELSE <<>>
      tier == IF ~c.git_status_enable_path_filtering THEN "tier3"
              ELSE IF matches_tier(filepath, c.tier2_patterns) THEN "tier2"
              ELSE IF matches_tier(filepath, c.tier1_patterns) THEN "tier1"
              ELSE "tier3"
  IN  [tier |-> tier, filepath |-> filepath, status_code |-> status_code]

\* _classify_status_line under a configuration c: (tier, filepath, status_code)
classify_status_line(c, line) ==
  LET status_code == Strip(Take(line, 2))
      filepath == IF Len(line) > 3 THEN Strip(Drop(line, 3)) ELSE <<>>
      tier == IF ~c.git_status_enable_path_filtering THEN "tier3"
              ELSE IF matches_tier(filepath, c.tier1_patterns) THEN "tier1"
              ELSE IF matches_tier(filepath, c.tier2_patterns) THEN "tier2"
              ELSE "tier3"
  IN  [tier |-> tier, filepath |-> filepath, status_code |-> status_code]

----------------------------------------------------------------------------
(* _gather_git_status: the report builder, one operator per block          *)

CleanSentence == <<"W", "o", "r", "k", "i", "n", "g", " ", "d", "i", "r", "e", "c", "t", "o", "r", "y", " ", "c", "l", "e", "a", "n">>

\* the bucket the classification loop appends a line to
BucketOf(c, line) ==
  LET k == classify_status_line(c, line)
  IN  IF k.tier = "tier1"
        THEN IF k.status_code = Untracked THEN "tier1_untracked" ELSE "tier1_tracked"
      ELSE IF k.tier = "tier2" THEN "tier2_lines"
      ELSE IF k.status_code = Untracked THEN "tier3_untracked" ELSE "tier3_tracked"

\* the texts of the f-strings of the omitted-summary lines
OmittedPrefix == <<".", ".", ".", " ", "(">>
TrackedSuffix == <<" ", "m", "o", "r", "e", " ", "t", "r", "a", "c", "k", "e", "d", " ", "f", "i", "l", "e", "s", " ", "o", "m", "i", "t", "t", "e", "d", ")">>
UntrackedSuffix == <<" ", "m", "o", "r", "e", " ", "u", "n", "t", "r", "a", "c", "k", "e", "d", " ", "f", "i", "l", "e", "s", " ", "o", "m", "i", "t", "t", "e", "d", ")">>
SupportSuffix == <<" ", "m", "o", "r", "e", " ", "s", "u", "p", "p", "o", "r", "t", " ", "f", "i", "l", "e", "s", " ", "o", "m", "i", "t", "t", "e", "d", ")">>

TrackedOmitted(omitted) == OmittedPrefix \o DecStr(omitted) \o TrackedSuffix

UntrackedOmitted(omitted) == OmittedPrefix \o DecStr(omitted) \o UntrackedSuffix

SupportOmitted(omitted) == OmittedPrefix \o DecStr(omitted) \o SupportSuffix

\* variant: the entries kept are the last ones, t3t[-limit:]
EmitTier3TrackedLast(c, res, t3t) ==
  IF Len(t3t) <= c.git_status_max_tracked THEN res \o t3t
  ELSE LET shown == res \o SubSeq(t3t, Len(t3t) - c.git_status_max_tracked + 1, Len(t3t))
           omitted == Len(t3t) - c.git_status_max_tracked
       IN  IF c.git_status_show_filter_summary
           THEN Append(shown, TrackedOmitted(omitted))
           ELSE shown

\* Tier 3 tracked: apply tracked limit
EmitTier3Tracked(c, res, t3t) ==
  IF Len(t3t) <= c.git_status_max_tracked THEN res \o t3t
  ELSE LET shown == res \o Take(t3t, c.git_status_max_tracked)
           omitted == Len(t3t) - c.git_status_max_tracked
       IN  IF c.git_status_show_filter_summary
           THEN Append(shown, TrackedOmitted(omitted))
           ELSE shown

\* variant: a limit of 0 lifts the limit
EmitTier3UntrackedZeroUnlimited(c, res, t3u) ==
  IF ~c.git_status_include_untracked THEN res
  ELSE IF c.git_status_max_untracked = 0 \/ Len(t3u) <= c.git_status_max_untracked
    THEN res \o t3u
  ELSE LET shown == res \o Take(t3u, c.git_status_max_untracked)
           omitted == Len(t3u) - c.git_status_max_untracked
       IN  IF c.git_status_show_filter_summary
           THEN Append(shown, UntrackedOmitted(omitted))
           ELSE shown

\* variant: untracked entries are reported whatever git_status_include_untracked is
EmitTier3UntrackedAlways(c, res, t3u) ==
  IF Len(t3u) <= c.git_status_max_untracked THEN res \o t3u
  ELSE LET shown == res \o Take(t3u, c.git_status_max_untracked)
           omitted == Len(t3u) - c.git_status_max_untracked
       IN  IF c.git_status_show_filter_summary
           THEN Append(shown, UntrackedOmitted(omitted))
           ELSE shown

\* Tier 3 untracked: apply untracked limit
EmitTier3Untracked(c, res, t3u) ==
  IF ~c.git_status_include_untracked THEN res
  ELSE IF Len(t3u) <= c.git_status_max_untracked THEN res \o t3u
  ELSE LET shown == res \o Take(t3u, c.git_status_max_untracked)
           omitted == Len(t3u) - c.git_status_max_untracked
       IN  IF c.git_status_show_filter_summary
           THEN Append(shown, UntrackedOmitted(omitted))
           ELSE shown

\* Tier 2: limited display
EmitTier2(c, res, t2) ==
  IF Len(t2) <= c.git_status_tier2_limit THEN res \o t2
  ELSE LET shown == res \o Take(t2, c.git_status_tier2_limit)
           omitted == Len(t2) - c.git_status_tier2_limit
       IN  IF c.git_status_show_filter_summary
           THEN Append(shown, SupportOmitted(omitted))
           ELSE shown

\* variant: the blank line does not depend on files having been shown
EmitBlankUnconditional(c, res, t1t, t1u) ==
  IF c.git_status_show_filter_summary /\ (t1t # <<>> \/ t1u # <<>>)
  THEN Append(res, <<>>)
  ELSE res

\* blank line before the summaries if files were shown
EmitBlank(c, res, t1t, t1u) ==
  IF res # <<>> /\ c.git_status_show_filter_summary /\ (t1t # <<>> \/ t1u # <<>>)
  THEN Append(res, <<>>)
  ELSE res

MaxExamples == 3

\* the texts of the tier 1 summary lines
WarningPrefix == <<"[", "W", "A", "R", "N", "I", "N", "G", ":", " ">>
WarningSuffix == <<" ", "t", "r", "a", "c", "k", "e", "d", " ", "f", "i", "l", "e", "s", " ", "i", "n", " ", "i", "g", "n", "o", "r", "e", "d", " ", "p", "a", "t", "h", "s", "]">>
ExampleIndent == <<" ", " ">>
AndMorePrefix == <<" ", " ", ".", ".", ".", " ", "a", "n", "d", " ">>
AndMoreSuffix == <<" ", "m", "o", "r", "e">>
SuggestionLine == <<"[", "S", "u", "g", "g", "e", "s", "t", "i", "o", "n", ":", " ", "T", "h", "e", "s", "e", " ", "d", "i", "r", "e", "c", "t", "o", "r", "i", "e", "s", " ", "s", "h", "o", "u", "l", "d", " ", "n", "o", "t", " ", "b", "e", " ", "t", "r", "a", "c", "k", "e", "d", "]">>
FilteredPrefix == <<"[", "F", "i", "l", "t", "e", "r", "e", "d", ":", " ">>
FilteredSuffix == <<" ", "u", "n", "t", "r", "a", "c", "k", "e", "d", " ", "f", "i", "l", "e", "s", " ", "i", "n", " ", "i", "g", "n", "o", "r", "e", "d", " ", "p", "a", "t", "h", "s", "]">>

WarningLine(n) == WarningPrefix \o DecStr(n) \o WarningSuffix

ExampleLine(ex) == ExampleIndent \o ex

AndMoreLine(n) == AndMorePrefix \o DecStr(n) \o AndMoreSuffix

FilteredLine(n) == FilteredPrefix \o DecStr(n) \o FilteredSuffix

\* variant: the "and more" line from three entries on
Tier1TrackedBlockFromThree(t1t) ==
  LET examples == Take(t1t, MaxExamples)
  IN  <<WarningLine(Len(t1t))>>
      \o [i \in 1..Len(examples) |-> ExampleLine(examples[i])]
      \o (IF Len(t1t) >= MaxExamples THEN <<AndMoreLine(Len(t1t) - MaxExamples)>> ELSE <<>>)
      \o <<SuggestionLine>>

\* the warning block for tracked files in ignored paths
Tier1TrackedBlock(t1t) ==
  LET examples == Take(t1t, MaxExamples)
  IN  <<WarningLine(Len(t1t))>>
      \o [i \in 1..Len(examples) |-> ExampleLine(examples[i])]
      \o (IF Len(t1t) > MaxExamples THEN <<AndMoreLine(Len(t1t) - MaxExamples)>> ELSE <<>>)
      \o <<SuggestionLine>>

\* Tier 1 summaries with explicit messages
EmitTier1(c, res, t1t, t1u) ==
  IF ~c.git_status_show_filter_summary THEN res
  ELSE res
       \o (IF t1t # <<>> THEN Tier1TrackedBlock(t1t) ELSE <<>>)
       \o (IF t1u # <<>> THEN <<FilteredLine(Len(t1u))>> ELSE <<>>)

HardLimitPrefix == <<"[", "H", "a", "r", "d", " ", "l", "i", "m", "i", "t", " ", "r", "e", "a", "c", "h", "e", "d", ":", " ", "o", "u", "t", "p", "u", "t", " ", "t", "r", "u", "n", "c", "a", "t", "e", "d", " ", "t", "o", " ">>
HardLimitSuffix == <<" ", "l", "i", "n", "e", "s", "]">>

HardLimitLine(n) == HardLimitPrefix \o DecStr(n) \o HardLimitSuffix

\* variant: the notice counted within the limit
ApplyHardLimitWithin(c, res) ==
  IF Len(res) > c.git_status_max_lines
  THEN Append(Take(res, c.git_status_max_lines - 1), HardLimitLine(c.git_status_max_lines))
  ELSE res

\* the absolute hard limit (safety backstop)
ApplyHardLimit(c, res) ==
  IF Len(res) > c.git_status_max_lines
  THEN Append(Take(res, c.git_status_max_lines), HardLimitLine(c.git_status_max_lines))
  ELSE res

\* variant: no sentence for an empty report
ReturnStatusJoinOnly(res) == JoinLines(res)

\* the return statement of _gather_git_status
ReturnStatus(res) == IF res # <<>> THEN JoinLines(res) ELSE CleanSentence

\* the report as accumulated before the hard limit
Accumulate(c, t1t, t1u, t2, t3t, t3u) ==
  EmitTier1(c,
    EmitBlank(c,
      EmitTier2(c,
        EmitTier3Untracked(c,
          EmitTier3Tracked(c, <<>>, t3t), t3u), t2), t1t, t1u), t1t, t1u)

----------------------------------------------------------------------------
(* _run_git and the version-control tool                                   *)

\* what subprocess.run can do: raise one of these, or return a completed process
Raises == {"TimeoutExpired", "FileNotFoundError", "PermissionError"}

\* the exception classes the except clause of _run_git names
Handled == {"TimeoutExpired", "FileNotFoundError", "Exception"}

\* every exception subprocess.run raises here derives from Exception
IsCaught(exc, handled) == exc \in handled \/ "Exception" \in handled

\* variant: the except clause names the two expected exceptions only
run_git_two_handlers(outcome) ==
  IF outcome.kind = "completed"
  THEN [value |-> IF outcome.returncode = 0 THEN Some(Strip(outcome.stdout)) ELSE None,
        raised |-> FALSE, attempts |-> 1]
  ELSE [value |-> None,
        raised |-> ~IsCaught(outcome.kind, {"TimeoutExpired", "FileNotFoundError"}),
        attempts |-> 1]

\* _run_git for one outcome of the tool: the value returned, whether an
\* exception leaves the method, and how often the tool was started
run_git(outcome) ==
  IF outcome.kind = "completed"
  THEN [value |-> IF outcome.returncode = 0 THEN Some(Strip(outcome.stdout)) ELSE None,
        raised |-> FALSE, attempts |-> 1]
  ELSE [value |-> None, raised |-> ~IsCaught(outcome.kind, Handled), attempts |-> 1]

----------------------------------------------------------------------------
(* Bounds of the model                                                     *)

\* most status lines the tool prints
MaxEntries == 4

\* the small value of a per-bucket limit, next to 0 and the default
SmallLimit == 1

\* the hard limit is drawn from 0..MaxHardLimit and the default
MaxHardLimit == 3

\* longest path and longest directory prefix of a pattern given to the matcher
MaxPathLen == 3
MaxPrefixLen == 1

\* defaults of StatusContextHook.__init__
DefaultMaxTracked == 50
DefaultMaxUntracked == 20
DefaultTier2Limit == 10
DefaultMaxLines == 100
DefaultCommits == 5

\* lines "git status --short" can print, in the order it prints them:
\* tracked changes by path, then untracked paths
StatusLines ==
  << <<" ", "M", " ", "a", ".", "p", "y">>,
     <<"M", " ", " ", "b", ".", "p", "y">>,
     <<"M", " ", " ", "b", "u", "i", "l", "d", "/", "o">>,
     <<"A", " ", " ", "b", "u", "i", "l", "d", "/", "x", ".", "l", "o", "g">>,
     <<"D", " ", " ", "b", "u", "i", "l", "d", "t", "o", "o", "l", "s", "/", "r">>,
     <<" ", "M", " ", "d", "i", "s", "t", "/", "q">>,
     <<"M", " ", " ", "k", ".", "l", "o", "c", "k">>,
     <<"?", "?", " ", "c", ".", "p", "y">>,
     <<"?", "?", " ", "o", "u", "t", "/", "z">>,
     <<"?", "?", " ", "w", ".", "s", "w", "p">> >>

\* the text the tool prints for a choice of lines: each line ends with a line break
RECURSIVE Stdout(_)
Stdout(lines) ==
  IF lines = <<>> THEN <<>> ELSE Head(lines) \o <<"\n">> \o Stdout(Tail(lines))

\* the lines of StatusLines whose index is in S, in order
RECURSIVE Pick(_, _)
Pick(S, i) ==
  IF i > Len(StatusLines) THEN <<>>
  ELSE (IF i \in S THEN <<StatusLines[i]>> ELSE <<>>) \o Pick(S, i + 1)

Outputs ==
  { Stdout(Pick(S, 1)) : S \in { T \in SUBSET (1..Len(StatusLines)) : Cardinality(T) <= MaxEntries } }

\* outcomes of one call of the tool
Outcomes(outs) ==
  { [kind |-> "completed", returncode |-> 0, stdout |-> o] : o \in outs }
  \cup { [kind |-> "completed", returncode |-> 128, stdout |-> <<>>] }
  \cup { [kind |-> k, returncode |-> 0, stdout |-> <<>>] : k \in Raises }

\* the configuration __init__ stores when the config dict is empty
DefaultConfig ==
  [ include_git |-> TRUE,
    git_include_status |-> TRUE,
    git_include_commits |-> DefaultCommits,
    git_include_branch |-> TRUE,
    git_include_main_branch |-> TRUE,
    git_status_include_untracked |-> TRUE,
    git_status_max_untracked |-> DefaultMaxUntracked,
    git_status_max_lines |-> DefaultMaxLines,
    git_status_enable_path_filtering |-> TRUE,
    tier1_patterns |-> DEFAULT_TIER1_PATTERNS,
    tier2_patterns |-> DEFAULT_TIER2_PATTERNS,
    git_status_tier2_limit |-> DefaultTier2Limit,
    git_status_max_tracked |-> DefaultMaxTracked,
    git_status_show_filter_summary |-> TRUE ]

\* the report options of a configuration
WithStatusOptions(incl, filt, show, trk, untrk, t2, hard) ==
  [DefaultConfig EXCEPT
     !.git_status_include_untracked = incl,
     !.git_status_enable_path_filtering = filt,
     !.git_status_show_filter_summary = show,
     !.git_status_max_tracked = trk,
     !.git_status_max_untracked = untrk,
     !.git_status_tier2_limit = t2,
     !.git_status_max_lines = hard]

\* configurations of the report builder: every combination of the three
\* per-bucket limits under the default hard limit, and the small hard limits
\* with the per-bucket limits all zero, all small or all default
Configs ==
  { WithStatusOptions(incl, filt, show, trk, untrk, t2, DefaultMaxLines) :
      incl \in BOOLEAN, filt \in BOOLEAN, show \in BOOLEAN,
      trk \in {0, SmallLimit, DefaultMaxTracked},
      untrk \in {0, SmallLimit, DefaultMaxUntracked},
      t2 \in {0, SmallLimit, DefaultTier2Limit} }
  \cup
  { WithStatusOptions(incl, filt, show, l[1], l[2], l[3], hard) :
      incl \in BOOLEAN, filt \in BOOLEAN, show \in BOOLEAN,
      l \in { <<0, 0, 0>>, <<SmallLimit, SmallLimit, SmallLimit>>,
              <<DefaultMaxTracked, DefaultMaxUntracked, DefaultTier2Limit>> },
      hard \in 0..MaxHardLimit }

\* the lines _gather_git_status can get out of the tool's status output
InputLines ==
  UNION { { SplitLines(Strip(o))[i] : i \in 1..Len(SplitLines(Strip(o))) } : o \in Outputs }

\* BucketOf under the default pattern lists, tabulated for the lines the tool
\* can print: path filtering on or off is all that varies between the
\* configurations of the report builder
DefaultBucketOf ==
  [filt \in BOOLEAN |-> [l \in InputLines |->
     BucketOf([DefaultConfig EXCEPT !.git_status_enable_path_filtering = filt], l)]]

BucketTag(c, line) ==
  IF /\ line \in InputLines
     /\ c.tier1_patterns = DEFAULT_TIER1_PATTERNS
     /\ c.tier2_patterns = DEFAULT_TIER2_PATTERNS
  THEN DefaultBucketOf[c.git_status_enable_path_filtering][line]
  ELSE BucketOf(c, line)

\* the classification loop: every line, in order, appended to its bucket
Buckets(c, lines) ==
  LET tags == [i \in 1..Len(lines) |-> BucketTag(c, lines[i])]
      Sel[i \in 0..Len(lines)] ==
        IF i = 0
        THEN [b \in {"tier1_tracked", "tier1_untracked", "tier2_lines",
                     "tier3_tracked", "tier3_untracked"} |-> <<>>]
        ELSE [Sel[i - 1] EXCEPT ![tags[i]] = Append(@, lines[i])]
  IN  Sel[Len(lines)]

\* _gather_git_status as one function of the configuration and the text _run_git returned
gather_git_status(c, raw) ==
  IF ~Truthy(raw) THEN CleanSentence
  ELSE LET b == Buckets(c, SplitLines(raw.val))
       IN  ReturnStatus(ApplyHardLimit(c,
             Accumulate(c, b.tier1_tracked, b.tier1_untracked, b.tier2_lines,
                        b.tier3_tracked, b.tier3_untracked)))

----------------------------------------------------------------------------
(* Inputs of the matcher and the classifier                                *)

PathChars == {"a", "b", "/"}

\* all strings over a set of characters, up to a length
RECURSIVE Strings(_, _)
Strings(chars, n) ==
  IF n = 0 THEN {<<>>}
  ELSE LET shorter == Strings(chars, n - 1)
       IN  shorter \cup { Append(s, ch) : s \in { x \in shorter : Len(x) = n - 1 }, ch \in chars }

Paths ==
  Strings(PathChars, MaxPathLen) \cup
  { <<"b", "u", "i", "l", "d", "/", "o", "u", "t", ".", "b", "i", "n">>,
    <<"b", "u", "i", "l", "d", "t", "o", "o", "l", "s", "/", "r", "e", "a", "d", "m", "e">>,
    <<"n", "o", "d", "e", "_", "m", "o", "d", "u", "l", "e", "s", "/", "x", ".", "j", "s">>,
    <<"b", "u", "i", "l", "d", "/", "x", ".", "l", "o", "g">>,
    <<"y", "a", "r", "n", ".", "l", "o", "c", "k">>,
    <<"s", "r", "c", "/", "m", "a", "i", "n", ".", "p", "y">> }

\* glob patterns a configuration can add
ExtraGlobs ==
  { <<"a", "*">>, <<"*", "b">>, <<"?">>, <<"*", "/", "b">>, <<"a", "b">>, <<"*">> }

\* tier 1 patterns a configuration can add: directory patterns and globs
ExtraPatterns ==
  { p \o DirSuffix : p \in Strings(PathChars, MaxPrefixLen) } \cup ExtraGlobs

\* tier 2 patterns a configuration can add
ExtraTier2Patterns == ExtraGlobs \cup { <<"a", "/", "*", "*">> }

StatusCodes == { <<"M", " ">>, <<" ", "M">>, <<"?", "?">> }

\* what the tool prints for the calls other than "status --short"
OtherOutputs == { <<>>, <<"m", "a", "i", "n", "\n">> }

\* status outputs for the call of _gather_git_status made by the hook
HookStatusOutputs ==
  { <<>>, Stdout(<<StatusLines[1]>>), Stdout(<<StatusLines[2], StatusLines[3]>>) }

\* configurations of on_provider_request: which parts of the git context are on
HookConfigs ==
  { [DefaultConfig EXCEPT
       !.include_git = g, !.git_include_branch = b, !.git_include_main_branch = m,
       !.git_include_status = s, !.git_include_commits = n] :
      g \in BOOLEAN, b \in BOOLEAN, m \in BOOLEAN, s \in BOOLEAN, n \in {0, DefaultCommits} }

\* __init__: the default patterns, then the configured extension
MatchConfigs ==
  { [DefaultConfig EXCEPT
       !.git_status_enable_path_filtering = filt,
       !.tier1_patterns = DEFAULT_TIER1_PATTERNS \o <<p1>>,
       !.tier2_patterns = DEFAULT_TIER2_PATTERNS \o <<p2>>] :
      filt \in BOOLEAN, p1 \in ExtraPatterns, p2 \in ExtraTier2Patterns }

----------------------------------------------------------------------------
(* State                                                                   *)

VARIABLES
  cfg,              \* the configuration __init__ stored
  pc,               \* position in _gather_git_status
  raw_status,
  tier1_tracked, tier1_untracked, tier2_lines, tier3_tracked, tier3_untracked,
  result,
  returned,         \* the value _gather_git_status returned, once pc = "done"
  match,            \* one call of _classify_status_line with its _matches_tier calls
  hook              \* one call of on_provider_request

vars == <<cfg, pc, raw_status, tier1_tracked, tier1_untracked, tier2_lines,
          tier3_tracked, tier3_untracked, result, returned, match, hook>>

buckets == <<tier1_tracked, tier1_untracked, tier2_lines, tier3_tracked, tier3_untracked>>

status_vars == <<pc, raw_status, buckets, result, returned>>

NoEntry == [tier |-> "none", filepath |-> <<>>, status_code |-> <<>>]

MatchIdle == [pc |-> "idle", line |-> <<>>, m1 |-> FALSE, m2 |-> FALSE, entry |-> NoEntry]

NoCall == [args |-> "none", outcome |-> [kind |-> "none", returncode |-> 0, stdout |-> <<>>],
           value |-> None, raised |-> FALSE]

HookIdle ==
  [pc |-> "idle", is_git_repo |-> FALSE, parts |-> <<>>, main_idx |-> 1,
   git_details |-> "unset", ncalls |-> 0, spawned |-> 0, last |-> NoCall, action |-> "none"]

StatusInit ==
  /\ pc = "run_git"
  /\ raw_status = None
  /\ tier1_tracked = <<>> /\ tier1_untracked = <<>> /\ tier2_lines = <<>>
  /\ tier3_tracked = <<>> /\ tier3_untracked = <<>>
  /\ result = <<>>
  /\ returned = None

----------------------------------------------------------------------------
(* _gather_git_status, block by block                                      *)

Init ==
  /\ cfg \in Configs
  /\ StatusInit
  /\ match = MatchIdle
  /\ hook = HookIdle

\* raw_status = self._run_git(["status", "--short"]); if not raw_status: return
RunGitStatus ==
  /\ pc = "run_git"
  /\ \E outcome \in Outcomes(Outputs) :
       LET r == run_git(outcome)
       IN  /\ raw_status' = r.value
           /\ IF r.raised
              THEN pc' = "raised" /\ returned' = returned
              ELSE IF Truthy(r.value)
              THEN pc' = "classify" /\ returned' = returned
              ELSE pc' = "done" /\ returned' = Some(CleanSentence)
  /\ UNCHANGED <<cfg, buckets, result, match, hook>>

\* the classification loop over raw_status.splitlines()
ClassifyLines ==
  /\ pc = "classify"
  /\ LET b == Buckets(cfg, SplitLines(raw_status.val))
     IN  /\ tier1_tracked' = b.tier1_tracked
         /\ tier1_untracked' = b.tier1_untracked
         /\ tier2_lines' = b.tier2_lines
         /\ tier3_tracked' = b.tier3_tracked
         /\ tier3_untracked' = b.tier3_untracked
  /\ pc' = "build"
  /\ UNCHANGED <<cfg, raw_status, result, returned, match, hook>>

\* the per-tier blocks, the blank line and the tier 1 summaries
BuildReport ==
  /\ pc = "build"
  /\ result' = Accumulate(cfg, tier1_tracked, tier1_untracked, tier2_lines,
                          tier3_tracked, tier3_untracked)
  /\ pc' = "hard_limit"
  /\ UNCHANGED <<cfg, raw_status, buckets, returned, match, hook>>

HardLimitStep ==
  /\ pc = "hard_limit"
  /\ result' = ApplyHardLimit(cfg, result)
  /\ pc' = "return"
  /\ UNCHANGED <<cfg, raw_status, buckets, returned, match, hook>>

ReturnStep ==
  /\ pc = "return"
  /\ returned' = Some(ReturnStatus(result))
  /\ pc' = "done"
  /\ UNCHANGED <<cfg, raw_status, buckets, result, match, hook>>

Next ==
  \/ RunGitStatus
  \/ ClassifyLines
  \/ BuildReport
  \/ HardLimitStep
  \/ ReturnStep

Spec == Init /\ [][Next]_vars

----------------------------------------------------------------------------
(* _matches_tier and _classify_status_line as functions of their inputs    *)

MatchInit ==
  /\ cfg \in MatchConfigs
  /\ StatusInit
  /\ \E code \in StatusCodes, path \in Paths :
       match = [MatchIdle EXCEPT !.pc = "match", !.line = code \o <<" ">> \o path]
  /\ hook = HookIdle

\* the two _matches_tier calls on the path of the line
MatchTiers ==
  /\ match.pc = "match"
  /\ LET filepath == IF Len(match.line) > 3 THEN Strip(Drop(match.line, 3)) ELSE <<>>
     IN  match' = [match EXCEPT !.pc = "classify",
                                !.m1 = matches_tier(filepath, cfg.tier1_patterns),
                                !.m2 = matches_tier(filepath, cfg.tier2_patterns)]
  /\ UNCHANGED <<cfg, status_vars, hook>>

ClassifyLine ==
  /\ match.pc = "classify"
  /\ match' = [match EXCEPT !.pc = "done", !.entry = classify_status_line(cfg, match.line)]
  /\ UNCHANGED <<cfg, status_vars, hook>>

MatchNext == MatchTiers \/ ClassifyLine

SpecMatch == MatchInit /\ [][MatchNext]_vars

----------------------------------------------------------------------------
(* on_provider_request with _gather_env_info and _gather_git_context       *)

HookInit ==
  /\ cfg \in HookConfigs
  /\ StatusInit
  /\ match = MatchIdle
  /\ hook = [HookIdle EXCEPT !.pc = "env_info"]

\* the hook after one call of _run_git with these arguments and this outcome
Called(h, args, outcome) ==
  LET r == run_git(outcome)
  IN  [h EXCEPT !.ncalls = @ + 1,
                !.spawned = @ + r.attempts,
                !.last = [args |-> args, outcome |-> outcome,
                          value |-> r.value, raised |-> r.raised]]

\* the return of _gather_git_context
ContextOf(parts) == IF Len(parts) > 1 THEN "text" ELSE "None"

\* parts = ["gitStatus: This is the git status at the start of the conversation. ..."]
ContextHeader == [kind |-> "header", text |-> <<>>]

\* _gather_env_info, then the test "self.include_git and env_info.get('is_git_repo')"
GatherEnvInfo ==
  /\ hook.pc = "env_info"
  /\ \E outcome \in Outcomes(OtherOutputs) :
       LET h == Called(hook, "rev-parse --git-dir", outcome)
           \* an exception inside the try block gives the fallback record
           repo == IF h.last.raised THEN FALSE ELSE ~h.last.value.isNone
       IN  hook' = [h EXCEPT !.is_git_repo = repo,
                             !.pc = IF cfg.include_git /\ repo THEN "branch" ELSE "return",
                             !.parts = IF cfg.include_git /\ repo THEN <<ContextHeader>> ELSE @,
                             !.git_details = IF cfg.include_git /\ repo THEN @ ELSE "None"]
  /\ UNCHANGED <<cfg, status_vars, match>>

\* _gather_git_context: current branch
GitBranch ==
  /\ hook.pc = "branch"
  /\ IF cfg.git_include_branch
     THEN \E outcome \in Outcomes(OtherOutputs) :
            LET h == Called(hook, "branch --show-current", outcome)
            IN  hook' = IF h.last.raised
                        THEN [h EXCEPT !.pc = "return", !.git_details = "None"]
                        ELSE [h EXCEPT !.pc = "main_branch",
                                       !.parts = IF Truthy(h.last.value)
                                                 THEN Append(@, [kind |-> "branch", text |-> h.last.value.val])
                                                 ELSE @]
     ELSE hook' = [hook EXCEPT !.pc = "main_branch"]
  /\ UNCHANGED <<cfg, status_vars, match>>

MainBranches == <<<<"m", "a", "i", "n">>, <<"m", "a", "s", "t", "e", "r">>>>

\* _gather_git_context: one iteration of the main branch loop
GitMainBranch ==
  /\ hook.pc = "main_branch"
  /\ IF cfg.git_include_main_branch
     THEN \E outcome \in Outcomes(OtherOutputs) :
            LET h == Called(hook, "rev-parse --verify", outcome)
            IN  hook' = IF h.last.raised
                        THEN [h EXCEPT !.pc = "return", !.git_details = "None"]
                        ELSE IF ~h.last.value.isNone
                        THEN [h EXCEPT !.pc = "status",
                                       !.parts = Append(@, [kind |-> "main", text |-> MainBranches[hook.main_idx]])]
                        ELSE IF hook.main_idx < Len(MainBranches)
                        THEN [h EXCEPT !.main_idx = @ + 1]
                        ELSE [h EXCEPT !.pc = "status"]
     ELSE hook' = [hook EXCEPT !.pc = "status"]
  /\ UNCHANGED <<cfg, status_vars, match>>

\* _gather_git_context: working directory status
GitStatus ==
  /\ hook.pc = "status"
  /\ IF cfg.git_include_status
     THEN \E outcome \in Outcomes(HookStatusOutputs) :
            LET h == Called(hook, "status --short", outcome)
                status == gather_git_status(cfg, h.last.value)
            IN  hook' = IF h.last.raised
                        THEN [h EXCEPT !.pc = "return", !.git_details = "None"]
                        ELSE [h EXCEPT !.pc = "log",
                                       !.parts = IF status # <<>>
                                                 THEN Append(@, [kind |-> "status", text |-> status])
                                                 ELSE @]
     ELSE hook' = [hook EXCEPT !.pc = "log"]
  /\ UNCHANGED <<cfg, status_vars, match>>

\* _gather_git_context: recent commits, and the return
GitLog ==
  /\ hook.pc = "log"
  /\ IF cfg.git_include_commits > 0
     THEN \E outcome \in Outcomes(OtherOutputs) :
            LET h == Called(hook, "log --oneline", outcome)
            IN  hook' = IF h.last.raised
                        THEN [h EXCEPT !.pc = "return", !.git_details = "None"]
                        ELSE LET parts == IF Truthy(h.last.value)
                                          THEN Append(h.parts, [kind |-> "log", text |-> h.last.value.val])
                                          ELSE h.parts
                             IN  [h EXCEPT !.pc = "return", !.parts = parts,
                                           !.git_details = ContextOf(parts)]
     ELSE hook' = [hook EXCEPT !.pc = "return", !.git_details = ContextOf(hook.parts)]
  /\ UNCHANGED <<cfg, status_vars, match>>

\* return HookResult(action="inject_context", ...)
ReturnHookResult ==
  /\ hook.pc = "return"
  /\ hook' = [hook EXCEPT !.pc = "done", !.action = "inject_context"]
  /\ UNCHANGED <<cfg, status_vars, match>>

HookNext ==
  \/ GatherEnvInfo
  \/ GitBranch
  \/ GitMainBranch
  \/ GitStatus
  \/ GitLog
  \/ ReturnHookResult

SpecHook == HookInit /\ [][HookNext]_vars

----------------------------------------------------------------------------
(* Properties of the report builder, checked under Spec                    *)

Range(s) == { s[i] : i \in 1..Len(s) }

\* the positions of res holding a line that satisfies P
Positions(res, P(_)) == { i \in 1..Len(res) : P(res[i]) }

IsHardLimitNotice(l) == StartsWith(l, HardLimitPrefix)

\* C1: the report never has more lines than git_status_max_lines, and when it
\* was truncated its last line is the truncation notice.
C1_HardBackstopDominance ==
  pc \in {"return", "done"} =>
    /\ Len(result) <= cfg.git_status_max_lines
    /\ (Positions(result, IsHardLimitNotice) # {} => IsHardLimitNotice(result[Len(result)]))

\* the entries of a bucket shown in the report
ShownFrom(res, bucket) == Positions(res, LAMBDA l : l \in Range(bucket))

\* the omitted-summary lines of one kind in the report
OmittedLines(res, suffix) ==
  Positions(res, LAMBDA l : StartsWith(l, OmittedPrefix) /\ EndsWith(l, suffix))

LimitRespected(res, bucket, L, suffix) ==
  LET N == Len(bucket)
  IN  /\ Cardinality(ShownFrom(res, bucket)) = (IF N < L THEN N ELSE L)
      /\ IF N > L /\ cfg.git_status_show_filter_summary
         THEN \E i \in 1..Len(res) :
                /\ OmittedLines(res, suffix) = {i}
                /\ res[i] = OmittedPrefix \o DecStr(N - L) \o suffix
         ELSE OmittedLines(res, suffix) = {}

C5_ZeroMeansUnlimited ==
  (pc = "hard_limit" /\ cfg.git_status_include_untracked /\ cfg.git_status_max_untracked = 0) =>
    /\ Cardinality(ShownFrom(result, tier3_untracked)) = Len(tier3_untracked)
    /\ OmittedLines(result, UntrackedSuffix) = {}

JoinedBy(text, lines) ==
  LET Off[i \in 1..(Len(lines) + 1)] ==
        IF i = 1 THEN 0 ELSE Off[i - 1] + Len(lines[i - 1]) + 1
  IN  /\ Len(text) + 1 = Off[Len(lines) + 1]
      /\ \A i \in 1..Len(lines) :
           /\ SubSeq(text, Off[i] + 1, Off[i] + Len(lines[i])) = lines[i]
           /\ i < Len(lines) => text[Off[i + 1]] = "\n"

\* C4: when the final list of report lines is empty the call returns exactly
\* "Working directory clean"; otherwise it returns the lines joined by line
\* breaks, never that sentence in their place.
C4_CleanTree ==
  pc = "done" =>
    /\ ~returned.isNone
    /\ IF result = <<>>
       THEN returned.val = CleanSentence
       ELSE returned.val # CleanSentence /\ JoinedBy(returned.val, result)

\* entries exist, all of them tier 1, and with summaries off nothing is left to report
C4_Witness ==
  /\ pc = "done"
  /\ Truthy(raw_status)
  /\ tier1_tracked # <<>>
  /\ ~cfg.git_status_show_filter_summary
  /\ result = <<>>
  /\ returned = Some(CleanSentence)

\* the place of a report line in the fixed order of the report
Rank(l) ==
  IF l \in Range(tier3_tracked) THEN 1
  ELSE IF StartsWith(l, OmittedPrefix) /\ EndsWith(l, TrackedSuffix) THEN 2
  ELSE IF l \in Range(tier3_untracked) THEN 3
  ELSE IF StartsWith(l, OmittedPrefix) /\ EndsWith(l, UntrackedSuffix) THEN 4
  ELSE IF l \in Range(tier2_lines) THEN 5
  ELSE IF StartsWith(l, OmittedPrefix) /\ EndsWith(l, SupportSuffix) THEN 6
  ELSE IF l = <<>> THEN 7
  ELSE IF StartsWith(l, WarningPrefix) THEN 8
  ELSE IF StartsWith(l, AndMorePrefix) THEN 10
  ELSE IF StartsWith(l, ExampleIndent) THEN 9
  ELSE IF l = SuggestionLine THEN 11
  ELSE IF StartsWith(l, FilteredPrefix) THEN 12
  ELSE 0

\* ranks of lines that occur once at most
SingleRanks == {2, 4, 6, 7, 8, 10, 11, 12}

\* the entries of a bucket as they follow each other in the tool's output
InInputOrder(bucket) ==
  SelectSeq(SplitLines(raw_status.val), LAMBDA l : l \in Range(bucket))

\* the lines of the report with a rank, in report order
WithRank(r) == SelectSeq(result, LAMBDA l : Rank(l) = r)

FirstOfBucket(shown, bucket) ==
  /\ Len(shown) <= Len(bucket)
  /\ shown = SubSeq(InInputOrder(bucket), 1, Len(shown))

\* C6: before the hard limit the lines of the report follow the fixed bucket
\* order, and the entries shown of a bucket are its first ones in input order.
C6_LineOrder ==
  pc = "hard_limit" =>
    /\ \A i \in 1..Len(result) : Rank(result[i]) # 0
    /\ \A i, j \in 1..Len(result) :
         i < j => /\ Rank(result[i]) <= Rank(result[j])
                  /\ Rank(result[i]) \in SingleRanks => Rank(result[i]) < Rank(result[j])
    /\ FirstOfBucket(WithRank(1), tier3_tracked)
    /\ FirstOfBucket(WithRank(3), tier3_untracked)
    /\ FirstOfBucket(WithRank(5), tier2_lines)
    /\ LET ex == WithRank(9)
       IN  FirstOfBucket([i \in 1..Len(ex) |-> Drop(ex[i], Len(ExampleIndent))], tier1_tracked)

\* a cut bucket with its summary, then tier 2 entries, the blank line and the warning block
C6_Witness ==
  /\ pc = "hard_limit"
  /\ Len(tier3_tracked) = 2 /\ cfg.git_status_max_tracked = 1
  /\ cfg.git_status_show_filter_summary
  /\ tier2_lines # <<>>
  /\ tier1_tracked # <<>>
  /\ Len(result) = 7

MentionsTier1(l) ==
  \E e \in Range(tier1_tracked) \cup Range(tier1_untracked) : EndsWith(l, e)

\* C7: with summaries on and T >= 1 tier 1 tracked entries the report has, in
\* a row, the warning with T, the first min(T, 3) entries as examples, the
\* "and T-3 more" line iff T > 3, and the suggestion; tier 1 entries appear
\* nowhere else, and with summaries off neither they nor the block appear.
C7_Tier1TrackedBlock ==
  pc = "hard_limit" =>
    LET T == Len(tier1_tracked)
        m == IF T < 3 THEN T ELSE 3
        more == Positions(result, LAMBDA l : StartsWith(l, AndMorePrefix))
    IN  IF cfg.git_status_show_filter_summary /\ T >= 1
        THEN \E k \in 1..Len(result) :
               /\ Positions(result, LAMBDA l : StartsWith(l, WarningPrefix)) = {k}
               /\ result[k] = WarningPrefix \o DecStr(T) \o WarningSuffix
               /\ Positions(result, MentionsTier1) = (k + 1)..(k + m)
               /\ \A j \in 1..m : result[k + j] = <<" ", " ">> \o tier1_tracked[j]
               /\ IF T > 3
                  THEN /\ more = {k + m + 1}
                       /\ result[k + m + 1] = AndMorePrefix \o DecStr(T - 3) \o AndMoreSuffix
                       /\ Positions(result, LAMBDA l : l = SuggestionLine) = {k + m + 2}
                  ELSE /\ more = {}
                       /\ Positions(result, LAMBDA l : l = SuggestionLine) = {k + m + 1}
        ELSE /\ Positions(result, MentionsTier1) = {}
             /\ Positions(result, LAMBDA l : StartsWith(l, WarningPrefix)) = {}
             /\ Positions(result, LAMBDA l : l = SuggestionLine) = {}
             /\ more = {}

\* four tier 1 tracked entries: three examples and "and 1 more"
C7_Witness ==
  /\ pc = "hard_limit"
  /\ cfg.git_status_show_filter_summary
  /\ Len(tier1_tracked) = 4
  /\ AndMoreLine(1) \in Range(result)

\* the lines written by the tier 3 and tier 2 blocks, and by the tier 1 block
IsFileLine(l) == Rank(l) \in 1..6

IsTier1Summary(l) == Rank(l) \in 8..12

\* C11: before the hard limit the report has exactly one blank line, right
\* after the tier 3 / tier 2 lines and right before the tier 1 summary lines,
\* iff some tier 3 / tier 2 line was written, summaries are on and a tier 1
\* entry exists; otherwise it has none, so no report begins with a blank line.
C11_BlankSeparator ==
  pc = "hard_limit" =>
    LET blanks == Positions(result, LAMBDA l : l = <<>>)
        files == Positions(result, IsFileLine)
        summaries == Positions(result, IsTier1Summary)
    IN  /\ IF /\ files # {}
              /\ cfg.git_status_show_filter_summary
              /\ (tier1_tracked # <<>> \/ tier1_untracked # <<>>)
           THEN \E k \in 1..Len(result) :
                  /\ blanks = {k}
                  /\ files = 1..(k - 1)
                  /\ summaries = (k + 1)..Len(result)
                  /\ summaries # {}
           ELSE blanks = {}
        /\ result # <<>> => result[1] # <<>>

\* shown files, the blank line, then the summary of filtered untracked entries
C11_Witness ==
  /\ pc = "hard_limit"
  /\ tier1_tracked = <<>> /\ tier1_untracked # <<>>
  /\ \E k \in 2..(Len(result) - 1) :
       /\ result[k] = <<>>
       /\ result[k + 1] = FilteredLine(Len(tier1_untracked))
       /\ result[k - 1] \in Range(tier2_lines)

\* the tool's output without the lines of the tier 3 untracked bucket
WithoutTier3Untracked ==
  SelectSeq(SplitLines(raw_status.val), LAMBDA l : l \notin Range(tier3_untracked))

\* the report before the hard limit for a configuration and the lines of an output
ReportBeforeLimit(c, lines) ==
  LET b == Buckets(c, lines)
  IN  Accumulate(c, b.tier1_tracked, b.tier1_untracked, b.tier2_lines,
                 b.tier3_tracked, b.tier3_untracked)

\* the configuration with untracked files included
IncludingUntracked == [cfg EXCEPT !.git_status_include_untracked = TRUE]

\* C12: with git_status_include_untracked off the report has no tier 3
\* untracked entry and no untracked omitted-summary line, whatever the
\* untracked limit is, and it is, before the hard limit and as returned, the
\* report of the same output without its tier 3 untracked lines (with
\* untracked files excluded or included).
C12_UntrackedExclusion ==
  (~cfg.git_status_include_untracked /\ Truthy(raw_status)) =>
    /\ pc = "hard_limit" =>
         /\ ShownFrom(result, tier3_untracked) = {}
         /\ OmittedLines(result, UntrackedSuffix) = {}
         /\ \A c \in {cfg, IncludingUntracked} :
              result = ReportBeforeLimit(c, WithoutTier3Untracked)
    /\ pc = "done" =>
         \A c \in {cfg, IncludingUntracked} :
           returned.val = gather_git_status(c, Some(JoinLines(WithoutTier3Untracked)))

\* untracked entries over a limit of 0 left out of a report that has other parts
C12_Witness ==
  /\ pc = "done"
  /\ ~cfg.git_status_include_untracked
  /\ cfg.git_status_max_untracked = 0
  /\ cfg.git_status_show_filter_summary
  /\ tier3_untracked # <<>>
  /\ tier3_tracked # <<>>
  /\ tier1_untracked # <<>>
  /\ Len(result) = Len(tier3_tracked) + 2

\* the outputs the tool can have printed when _run_git returned raw_status
EmittedOutputs == { o \in Outputs : Strip(o) = raw_status.val }

\* C13: every line the tool printed, the first one and those whose code
\* begins with a space included, is classified by its own text: the entry has
\* the line's first two characters as its code (trimmed, as the classifier
\* returns it) and the text from index 3 on, trimmed, as its path; no line is
\* rejected.
C13_FaithfulParsing ==
  pc = "build" =>
    \A o \in EmittedOutputs :
      LET emitted == SplitLines(o)
          seen == SplitLines(raw_status.val)
      IN  /\ Len(seen) = Len(emitted)
          /\ Len(tier1_tracked) + Len(tier1_untracked) + Len(tier2_lines)
               + Len(tier3_tracked) + Len(tier3_untracked) = Len(emitted)
          /\ \A i \in 1..Len(emitted) :
               LET entry == classify_status_line(cfg, seen[i])
               IN  /\ entry.status_code = Strip(Take(emitted[i], 2))
                   /\ entry.filepath = Strip(Drop(emitted[i], 3))

----------------------------------------------------------------------------
(* Properties of the matcher and the classifier, checked under SpecMatch   *)

\* C3: with path filtering on, a path matching a tier 1 and a tier 2 pattern
\* is tier 1; tier 2 needs no tier 1 match, tier 3 no match at all.
C3_TierPrecedence ==
  (match.pc = "done" /\ cfg.git_status_enable_path_filtering) =>
    /\ (match.m1 /\ match.m2) => match.entry.tier = "tier1"
    /\ match.entry.tier = "tier1" <=> match.m1
    /\ match.entry.tier = "tier2" <=> (~match.m1 /\ match.m2)
    /\ match.entry.tier = "tier3" <=> (~match.m1 /\ ~match.m2)

\* build/x.log matches build/** of tier 1 and *.log of tier 2
C3_Witness ==
  /\ match.pc = "done"
  /\ cfg.git_status_enable_path_filtering
  /\ match.entry.filepath = <<"b", "u", "i", "l", "d", "/", "x", ".", "l", "o", "g">>
  /\ match.m1 /\ match.m2
  /\ match.entry.tier = "tier1"

EndsInDirSuffix(p) ==
  Len(p) >= 3 /\ p[Len(p) - 2] = "/" /\ p[Len(p) - 1] = "*" /\ p[Len(p)] = "*"

\* the text of p before its last three characters starts the path, character by character
RawPrefix(path, p) ==
  /\ Len(path) >= Len(p) - 3
  /\ \A i \in 1..(Len(p) - 3) : path[i] = p[i]

ListMatches(path, patterns) ==
  \E i \in 1..Len(patterns) :
    IF EndsInDirSuffix(patterns[i]) THEN RawPrefix(path, patterns[i])
    ELSE FnMatch(path, patterns[i])

\* C8: a pattern ending in "/**" matches a path iff the text before "/**" is
\* a raw string prefix of the path, no segment boundary needed; a pattern
\* list matches iff one of its patterns does.
C8_DirectoryPrefix ==
  match.pc \in {"classify", "done"} =>
    LET path == Drop(match.line, 3)
    IN  /\ match.m1 <=> ListMatches(path, cfg.tier1_patterns)
        /\ match.m2 <=> ListMatches(path, cfg.tier2_patterns)

\* buildtools/readme matches build/** although no segment ends after "build"
C8_Witness ==
  /\ match.pc = "classify"
  /\ Drop(match.line, 3) = <<"b", "u", "i", "l", "d", "t", "o", "o", "l", "s", "/", "r", "e", "a", "d", "m", "e">>
  /\ match.m1

----------------------------------------------------------------------------
(* Properties of the hook and the tool call, checked under SpecHook        *)

Failed(outcome) == outcome.kind # "completed" \/ outcome.returncode # 0

\* C9: whatever the tool does, _run_git returns None and raises nothing
\* unless the exit code is 0, starts the tool once per call, and
\* on_provider_request goes on to return an inject_context result.
C9_FailureIsAbsence ==
  /\ hook.ncalls > 0 =>
       /\ ~hook.last.raised
       /\ Failed(hook.last.outcome) => hook.last.value.isNone
       /\ ~Failed(hook.last.outcome) => ~hook.last.value.isNone
  /\ hook.spawned = hook.ncalls
  /\ hook.pc = "done" => hook.action = "inject_context"
  /\ hook.pc \notin {"idle", "done"} => ENABLED HookNext

\* the hook returned although its last call of the tool timed out
C9_Witness ==
  /\ hook.pc = "done"
  /\ hook.action = "inject_context"
  /\ hook.last.outcome.kind = "TimeoutExpired"
  /\ hook.ncalls > 1

====
